---- MODULE Spec2Model ----
(***************************************************************************)
(* SpontaneousConnect: the schedule_helper row of one user, the            *)
(* DatabaseService clients (cache, withRetry, conditional write) and the   *)
(* useScheduler hook operations of two browser sessions of that user,      *)
(* plus the CallScheduler quota check.                                     *)
(*                                                                         *)
(* Instants are minutes since the epoch (UTC).  NULL is the SQL null /     *)
(* JavaScript null of an optional instant.                                 *)
(***************************************************************************)
EXTENDS Integers, Sequences, FiniteSets, TLC

VARIABLES
  db,          \* the stored schedule_helper row of the user
  callHistory, \* number of call_history rows, by what inserted them
  now,         \* wall clock, minutes since the epoch
  cache,       \* per client: DatabaseService.cache entry of the schedule_helper key
  hook,        \* per client: the useScheduler state
  sched,       \* CallScheduler lane: inputs and result of generateNextCallTime
  schema       \* which of the two setup scripts of the repository made the database

vars == <<db, callHistory, now, cache, hook, sched, schema>>

----------------------------------------------------------------------------
(* Bounds of the model *)

MaxDay == 1             \* the clock stops advancing on this day (day 0 is the first)
MaxVersion == 5         \* no operation starts a write expecting this version or more
MaxHistory == 1         \* cap on the call_history rows of markCallAttempted

(* Program constants *)

MAX_RETRIES == 3
CACHE_TTL == 5                 \* 300000 ms, in minutes
DEFAULT_DAILY_LIMIT == 3
MIN_CALL_GAP_MINUTES == 45
MAX_CALL_GAP_MINUTES == 360
MinutesPerDay == 1440
TickMinutes == MinutesPerDay   \* the clock advances in whole days

NULL == -1
Clients == {"c1", "c2"}
\* the session in which the user answers calls (markCallAttempted,
\* rescheduleCall); the other one only loads, refreshes and generates
Answering == {"c1"}
NoRow == [absent |-> TRUE]

----------------------------------------------------------------------------
(* Dates and the Date API *)

\* new Date().toISOString().split('T')[0] : the UTC calendar date, as a day number
Today(t) == t \div MinutesPerDay

\* Date local fields for a host at UTC+offset minutes
LocalDay(t, offset) == (t + offset) \div MinutesPerDay
LocalMinuteOfDay(t, offset) == (t + offset) % MinutesPerDay

\* Date built from local calendar fields; minutes beyond a day roll over
FromLocal(day, minuteOfDay, offset) == day * MinutesPerDay + minuteOfDay - offset

----------------------------------------------------------------------------
(* The database.  database/setup.sql declares CHECK constraints and the
   function reset_daily_call_counts(); the simple setup script declares the
   same tables without them. *)

Schemas == {"setup", "simple"}

\* CONSTRAINT future_next_call of schedule_helper, checked on every UPDATE
\* of the row at time t
FutureNextCall(row, t) ==
  row.next_call_due = NULL \/ row.next_call_due > t - 60

\* CONSTRAINT rating_only_for_completed of call_history, for a row inserted
\* with that status and no success_rating
RatingOnlyForCompleted(status) == status # "called"

\* CONSTRAINT valid_actual_time of call_history
ValidActualTime(actual, scheduled) == actual >= scheduled - 60

\* the constraints of a call_history row markCallAttempted inserts
CallHistoryChecks(sch, status, actual, scheduled) ==
  sch = "setup" => (RatingOnlyForCompleted(status) /\ ValidActualTime(actual, scheduled))

----------------------------------------------------------------------------
(* DatabaseService *)

\* { ...row, ...updates }
Merge(row, updates) ==
  [f \in DOMAIN row |-> IF f \in DOMAIN updates THEN updates[f] ELSE row[f]]

\* (variant: the increment forgotten)
NewLockVersion_Same(row, expected) == row.lock_version

\* lock_version: expectedLockVersion ? expectedLockVersion + 1 : undefined
NewLockVersion(row, expected) ==
  IF expected # 0 THEN expected + 1 ELSE row.lock_version

\* (variant: the UPDATE without its version filter)
VersionMatches_Any(row, expected) == TRUE

\* .eq('lock_version', expectedLockVersion)
VersionMatches(row, expected) == row.lock_version = expected

\* errors, as <<class, message>>; the message of a NetworkError ends with
\* the message of the last error withRetry caught
NoError == <<>>
ConcurrentModification == <<"ValidationError", "Schedule was modified by another process">>
CheckViolation == <<"AppError", "violates check constraint">>
NetworkError(err) == <<"NetworkError", "Database operation failed after 3 attempts", err[2]>>

\* (variant: the version filter applied to the returned row only, not to
\* the UPDATE)
UpdateScheduleHelper_Unfiltered(row, updates, expected, t, sch) ==
  LET new == [Merge(row, updates) EXCEPT !.lock_version = NewLockVersion(row, expected)]
  IN IF sch = "setup" /\ ~FutureNextCall(new, t)
     THEN [row |-> row, error |-> CheckViolation]
     ELSE [row |-> new,
           error |-> IF VersionMatches(row, expected) THEN NoError ELSE ConcurrentModification]

\* One execution of the UPDATE ... WHERE user_id = .. AND lock_version = ..
\* of updateScheduleHelper at time t: the row afterwards and the error
\* thrown.  No row matching is PGRST116; a matching row whose new version
\* fails a CHECK constraint is an error of the statement.
UpdateScheduleHelper(row, updates, expected, t, sch) ==
  LET new == [Merge(row, updates) EXCEPT !.lock_version = NewLockVersion(row, expected)]
  IN IF ~VersionMatches(row, expected) THEN [row |-> row, error |-> ConcurrentModification]
     ELSE IF sch = "setup" /\ ~FutureNextCall(new, t)
     THEN [row |-> row, error |-> CheckViolation]
     ELSE [row |-> new, error |-> NoError]

\* getCacheKey('schedule_helper', { userId }) and the pattern handed to
\* invalidateCache by updateScheduleHelper, as the strings they are for user u
CacheKey(u) == <<"schedule_helper_", "{", "\"userId\":", "\"", u, "\"", "}">>
InvalidatePattern(u) == <<"schedule_helper_", u>>

\* key.includes(pattern) on the token sequences of the two strings
Includes(key, pattern) ==
  \E i \in 0..(Len(key) - Len(pattern)) :
    \A j \in 1..Len(pattern) : key[i + j] = pattern[j]

UserId == "u1"

\* invalidateCache(`schedule_helper_${userId}`)
InvalidateCache(entry) ==
  IF Includes(CacheKey(UserId), InvalidatePattern(UserId)) THEN NoRow ELSE entry

\* setCache(key, data): the entry, stamped with Date.now()
SetCache(data) == [data |-> data, timestamp |-> now, ttl |-> CACHE_TTL]

\* getFromCache: the entry's data, unless there is no entry or the entry
\* has outlived its ttl (Date.now() - timestamp > ttl)
GetFromCache(entry) ==
  IF entry = NoRow THEN NoRow
  ELSE IF now - entry.timestamp > entry.ttl THEN NoRow
  ELSE entry.data

\* getScheduleHelper: the cached row when there is one, else the stored row
GetScheduleHelper(c) ==
  IF GetFromCache(cache[c]) # NoRow THEN GetFromCache(cache[c]) ELSE db

\* the cache entry after getScheduleHelper: setCache after a select
CacheAfterGet(c) ==
  IF GetFromCache(cache[c]) # NoRow THEN cache[c] ELSE SetCache(db)

----------------------------------------------------------------------------
(* CallScheduler: the quota check of generateNextCallTime *)

\* (variant: > for >=)
DailyLimitReached_Strict(helper, user) == helper.calls_today > user.daily_call_limit

\* scheduleHelper.calls_today >= this.user.daily_call_limit
DailyLimitReached(helper, user) == helper.calls_today >= user.daily_call_limit

\* getNextDayFirstCall: tomorrow (host-local calendar) at morning_start,
\* plus Math.floor(Math.random() * 60) minutes
GetNextDayFirstCall(t, offset, user, rnd) ==
  FromLocal(LocalDay(t, offset) + 1, user.morning_start, offset) + rnd

\* values of Math.floor(Math.random() * 60) tried, its extremes among them
RandomMinutes == {0, 30, 59}

\* the user of the hook lane: window 09:00-21:00, host clock on UTC
MainUser == [daily_call_limit |-> DEFAULT_DAILY_LIMIT, morning_start |-> 540, evening_end |-> 1260,
             timezone |-> 0]
MainHostOffset == 0
HookRandomMinutes == {0}

\* generateNextCallTime: the quota short-circuit, else whatever the
\* strategy search over blockedTimes returns (strat: a time found by the
\* first strategy, or all three strategies exhausted)
GenerateNextCallTime(blockedTimes, helper, user, t, offset, rnd, strat) ==
  IF DailyLimitReached(helper, user)
  THEN [success |-> TRUE, nextCallTime |-> GetNextDayFirstCall(t, offset, user, rnd),
        attempts |-> 1, constraints |-> << <<"daily_limit_reached">> >>, strategies |-> 0]
  ELSE IF strat = "found"
  THEN [success |-> TRUE, nextCallTime |-> t + MIN_CALL_GAP_MINUTES,
        attempts |-> 1, constraints |-> <<>>, strategies |-> 1]
  ELSE [success |-> FALSE, nextCallTime |-> NULL,
        attempts |-> 3, constraints |-> <<>>, strategies |-> 3]

----------------------------------------------------------------------------
(* CallScheduler: validateCallTime.  A time of day ("HH:MM") is its minute
   of the day; the strings compare as the minutes do.  Date fields are read
   and set in the time zone of the host (toTimeString, toLocaleDateString
   without a timeZone option, setHours, setDate): `offset` is the host's
   offset from UTC; user.timezone is not used by the class. *)

\* the names of Date.getDay() values; 1970-01-01 was a Thursday
DayNames == <<"Sun", "Mon", "Tue", "Wed", "Thu", "Fri", "Sat">>

\* time.toLocaleDateString('en', { weekday: 'short' })
DayName(time, offset) == DayNames[((LocalDay(time, offset) + 4) % 7) + 1]

\* time.toTimeString().slice(0, 5)
TimeStr(time, offset) == LocalMinuteOfDay(time, offset)

\* adjustToTimeWindow
AdjustToTimeWindow(time, user, offset) ==
  IF TimeStr(time, offset) < user.morning_start
  THEN FromLocal(LocalDay(time, offset), user.morning_start, offset)
  ELSE IF TimeStr(time, offset) > user.evening_end
  THEN FromLocal(LocalDay(time, offset) + 1, user.morning_start, offset)
  ELSE time

\* getNextActiveDay from its i-th iteration on: morning_start of the first
\* of the following days that is in active_days, and time + 24h when the
\* seven days have none
RECURSIVE NextActiveDayFrom(_, _, _, _)
NextActiveDayFrom(time, user, offset, i) ==
  IF i > 7 THEN time + MinutesPerDay
  ELSE IF DayName(time + i * MinutesPerDay, offset) \in user.active_days
  THEN FromLocal(LocalDay(time, offset) + i, user.morning_start, offset)
  ELSE NextActiveDayFrom(time, user, offset, i + 1)

GetNextActiveDay(time, user, offset) == NextActiveDayFrom(time, user, offset, 1)

\* isTimeInBlockedPeriod
IsTimeInBlockedPeriod(time, block, offset) ==
  /\ CASE block.repeat_type = "daily"    -> TRUE
       [] block.repeat_type = "weekdays" -> DayName(time, offset) \notin {"Sat", "Sun"}
       [] block.repeat_type = "weekends" -> DayName(time, offset) \in {"Sat", "Sun"}
       [] block.repeat_type = "custom"   -> DayName(time, offset) \in block.days_of_week
       [] block.repeat_type = "once"     -> TRUE
  /\ TimeStr(time, offset) >= block.start_time /\ TimeStr(time, offset) <= block.end_time

\* findNextAvailableTimeAfterBlock: the block's end on the day of `time`,
\* plus 15 minutes, through adjustToTimeWindow
FindNextAvailableTimeAfterBlock(time, block, user, offset) ==
  AdjustToTimeWindow(FromLocal(LocalDay(time, offset), block.end_time, offset) + 15,
                     user, offset)

\* String.toLowerCase on the characters used in block names
ToLowerCase(ch) ==
  CASE ch = "L" -> "l" [] ch = "N" -> "n" [] ch = "Z" -> "z" [] OTHER -> ch

\* name.toLowerCase().replace(/\s+/g, '_'): each run of whitespace becomes
\* one underscore
RECURSIVE ReasonName(_)
ReasonName(name) ==
  IF name = <<>> THEN <<>>
  ELSE IF Head(name) = " "
  THEN IF Len(name) > 1 /\ name[2] = " " THEN ReasonName(Tail(name))
       ELSE <<"_">> \o ReasonName(Tail(name))
  ELSE <<ToLowerCase(Head(name))>> \o ReasonName(Tail(name))

\* blockedTimes.filter(b => b.is_active)
RECURSIVE ActiveBlocks(_)
ActiveBlocks(blocks) ==
  IF blocks = <<>> THEN <<>>
  ELSE IF Head(blocks).is_active THEN <<Head(blocks)>> \o ActiveBlocks(Tail(blocks))
  ELSE ActiveBlocks(Tail(blocks))

\* the index of the first block of the list the time is in, 0 when in none
FirstBlocking(time, blocks, offset) ==
  IF \E i \in 1..Len(blocks) : IsTimeInBlockedPeriod(time, blocks[i], offset)
  THEN CHOOSE i \in 1..Len(blocks) :
         /\ IsTimeInBlockedPeriod(time, blocks[i], offset)
         /\ \A j \in 1..(i - 1) : ~IsTimeInBlockedPeriod(time, blocks[j], offset)
  ELSE 0


\* the reason a validation returns, if any
Reasons(validation) == IF validation.isValid THEN {} ELSE {validation.reason}

\* the result of a check that fails
Invalid(reason, suggestedTime) ==
  [isValid |-> FALSE, reason |-> reason, suggestedTime |-> suggestedTime]

\* (variant: the blocked intervals checked before the minimum gap)
ValidateCallTime_BlockedBeforeGap(time, blockedTimes, helper, user, minGapQ, t, offset) ==
  LET active == ActiveBlocks(blockedTimes)
      b      == FirstBlocking(time, active, offset)
  IN IF TimeStr(time, offset) < user.morning_start \/ TimeStr(time, offset) > user.evening_end
     THEN Invalid(<<"outside_daily_window">>, AdjustToTimeWindow(time, user, offset))
     ELSE IF DayName(time, offset) \notin user.active_days
     THEN Invalid(<<"inactive_day">>, GetNextActiveDay(time, user, offset))
     ELSE IF b # 0
     THEN Invalid(<<"blocked_">> \o ReasonName(active[b].block_name),
                  FindNextAvailableTimeAfterBlock(time, active[b], user, offset))
     ELSE IF helper.last_call_time # NULL /\ (time - helper.last_call_time) * 4 < minGapQ
     THEN Invalid(<<"min_gap_violation">>, helper.last_call_time + minGapQ \div 4)
     ELSE IF time <= t
     THEN Invalid(<<"past_time">>, t + minGapQ \div 4)
     ELSE [isValid |-> TRUE, reason |-> <<>>, suggestedTime |-> NULL]

\* validateCallTime(time, blockedTimes, scheduleHelper) of a scheduler for
\* `user` whose minGapMinutes is minGapQ / 4 (the relaxed gaps are not whole
\* minutes), called at time t on a host at UTC+offset
ValidateCallTime(time, blockedTimes, helper, user, minGapQ, t, offset) ==
  LET active == ActiveBlocks(blockedTimes)
      b      == FirstBlocking(time, active, offset)
  IN IF TimeStr(time, offset) < user.morning_start \/ TimeStr(time, offset) > user.evening_end
     THEN Invalid(<<"outside_daily_window">>, AdjustToTimeWindow(time, user, offset))
     ELSE IF DayName(time, offset) \notin user.active_days
     THEN Invalid(<<"inactive_day">>, GetNextActiveDay(time, user, offset))
     ELSE IF helper.last_call_time # NULL /\ (time - helper.last_call_time) * 4 < minGapQ
     THEN Invalid(<<"min_gap_violation">>, helper.last_call_time + minGapQ \div 4)
     ELSE IF b # 0
     THEN Invalid(<<"blocked_">> \o ReasonName(active[b].block_name),
                  FindNextAvailableTimeAfterBlock(time, active[b], user, offset))
     ELSE IF time <= t
     THEN Invalid(<<"past_time">>, t + minGapQ \div 4)
     ELSE [isValid |-> TRUE, reason |-> <<>>, suggestedTime |-> NULL]

----------------------------------------------------------------------------
(* CallScheduler: the three strategies of generateNextCallTime *)

\* optimalHours of getPreferredTimeSlots
OptimalHours == <<10, 11, 14, 16, 19, 20>>

\* getTimeSlotScore
GetTimeSlotScore(slot) ==
  (IF slot.hour >= 10 /\ slot.hour <= 16 THEN 3 ELSE 0)
  + (IF slot.hour >= 19 /\ slot.hour <= 21 THEN 4 ELSE 0)
  + (IF slot.minute = 0 \/ slot.minute = 30 THEN 1 ELSE 0)
  - (IF slot.hour < 9 \/ slot.hour > 22 THEN 2 ELSE 0)

\* the elements of seq at the indices of idx, in order
RECURSIVE SelectSeq2(_, _, _)
SelectSeq2(seq, idx, i) ==
  IF i > Len(seq) THEN <<>>
  ELSE IF i \in idx THEN <<seq[i]>> \o SelectSeq2(seq, idx, i + 1)
  ELSE SelectSeq2(seq, idx, i + 1)

\* slots.sort((a, b) => score(b) - score(a)): descending score, equal
\* scores in their order in the array (the sort is stable)
SortByScore(slots) ==
  LET before(i, j) == \/ GetTimeSlotScore(slots[i]) > GetTimeSlotScore(slots[j])
                      \/ (GetTimeSlotScore(slots[i]) = GetTimeSlotScore(slots[j]) /\ i < j)
      rank(j) == Cardinality({i \in 1..Len(slots) : before(i, j)}) + 1
  IN [k \in 1..Len(slots) |-> slots[CHOOSE j \in 1..Len(slots) : rank(j) = k]]

\* getPreferredTimeSlots; minutes[i] is the Math.floor(Math.random() * 60)
\* drawn for OptimalHours[i]
GetPreferredTimeSlots(user, minutes) ==
  LET startHour == user.morning_start \div 60
      endHour   == user.evening_end \div 60
      all       == [i \in 1..Len(OptimalHours) |->
                      [hour |-> OptimalHours[i], minute |-> minutes[i]]]
      kept      == {i \in 1..Len(OptimalHours) :
                      OptimalHours[i] >= startHour /\ OptimalHours[i] <= endHour}
  IN SortByScore(SelectSeq2(all, kept, 1))

\* getNextOccurrenceOfTimeSlot at time t; jitter is the whole number of
\* minutes setMinutes keeps of (Math.random() - 0.5) * RANDOMIZATION_WINDOW_MINUTES
GetNextOccurrenceOfTimeSlot(slot, t, offset, jitter) ==
  LET today == FromLocal(LocalDay(t, offset), slot.hour * 60 + slot.minute, offset)
  IN (IF today <= t THEN today + MinutesPerDay ELSE today) + jitter

\* relaxationStrategies of findTimeWithConstraintRelaxation, for a scheduler
\* whose minGapMinutes is minGap: the gap in quarters of a minute
\* (strategy.minGap || this.minGapMinutes), whether blocks of priority 0 are
\* dropped, and the description
RelaxationStrategies(minGap) ==
  << [minGapQ |-> minGap * 3, ignoreLowPriorityBlocks |-> FALSE, description |-> "reduced_min_gap"],
     [minGapQ |-> minGap * 2, ignoreLowPriorityBlocks |-> FALSE, description |-> "minimal_gap"],
     [minGapQ |-> minGap * 4, ignoreLowPriorityBlocks |-> TRUE,
      description |-> "ignore_low_priority_blocks"] >>

\* (variant: priority 1 dropped as well)
KeptWhenRelaxed_AboveOne(block) == block.priority > 1

\* block => block.priority > 0
KeptWhenRelaxed(block) == block.priority > 0

\* blockedTimes.filter(block => block.priority > 0)
RECURSIVE HighPriorityBlocks(_)
HighPriorityBlocks(blocks) ==
  IF blocks = <<>> THEN <<>>
  ELSE IF KeptWhenRelaxed(Head(blocks))
  THEN <<Head(blocks)>> \o HighPriorityBlocks(Tail(blocks))
  ELSE HighPriorityBlocks(Tail(blocks))

\* if (reason && !constraints.includes(reason)) constraints.push(reason)
AddConstraint(constraints, reason) ==
  IF \E i \in 1..Len(constraints) : constraints[i] = reason THEN constraints
  ELSE Append(constraints, reason)

\* Math.floor(Math.random() * (maxGap - minGap) + minGap) for the least and
\* the greatest value of Math.random(); minGapQ is minGap in quarters
RandomMinutesBetween(minGapQ, maxGap, u) ==
  IF u = "least" THEN minGapQ \div 4 ELSE maxGap - 1

----------------------------------------------------------------------------
(* useScheduler.  Of the hook state, scheduleHelper, callsToday,
   nextCallTime and error are tracked (error as the kind of the error whose
   message it holds); isLoading, isGenerating, timeUntilCall and
   lastGenerated only feed the display. *)

\* a write operation of kind k that read `helper`, with the given updates
StartWrite(k, helper, updates) ==
  [kind |-> k, updates |-> updates, expected |-> helper.lock_version]

\* setState after a read (loadInitialData without reset, refreshSchedule)
LoadedState(helper) ==
  [scheduleHelper |-> helper, callsToday |-> helper.calls_today,
   nextCallTime |-> helper.next_call_due, error |-> NoError]

\* setState after the write of operation o returned `updated`
CommittedState(h, o, updated) ==
  CASE o.kind = "load" -> LoadedState(updated)
    [] o.kind = "generate" ->
         [h EXCEPT !.nextCallTime = o.updates.next_call_due, !.scheduleHelper = updated,
                   !.error = NoError]
    [] o.kind = "mark" ->
         [h EXCEPT !.scheduleHelper = updated, !.callsToday = updated.calls_today,
                   !.nextCallTime = NULL, !.error = NoError]
    [] o.kind = "reschedule" ->
         [h EXCEPT !.nextCallTime = o.updates.next_call_due, !.scheduleHelper = updated,
                   !.error = NoError]

\* (variant: the counter incremented whatever the status)
MarkUpdates_AlwaysCount(h, status) ==
  [last_call_time |-> now, next_call_due |-> NULL, calls_today |-> h.callsToday + 1]

\* the updates object of markCallAttempted
MarkUpdates(h, status) ==
  IF status = "called"
  THEN [last_call_time |-> now, next_call_due |-> NULL, calls_today |-> h.callsToday + 1]
  ELSE [last_call_time |-> now, next_call_due |-> NULL]

\* withRetry around the UPDATE of updateScheduleHelper, from its attempt
\* number n on: every error is caught and the UPDATE issued again, with the
\* same arguments, until an attempt succeeds or MAX_RETRIES attempts have
\* been made; the error of the last one is then wrapped in a NetworkError.
\* The attempts follow each other within the backoff delays (seconds) and
\* are taken as one step: an attempt that follows a failed one fails too
\* (lock_version never returns to a value it had, and future_next_call
\* does not become true of the same next_call_due later).
RECURSIVE WithRetry(_, _, _, _, _, _)
WithRetry(row, updates, expected, t, sch, n) ==
  LET r == UpdateScheduleHelper(row, updates, expected, t, sch)
  IN IF r.error = NoError THEN [row |-> r.row, error |-> NoError, attempts |-> n]
     ELSE IF n = MAX_RETRIES
     THEN [row |-> r.row, error |-> NetworkError(r.error), attempts |-> n]
     ELSE WithRetry(r.row, updates, expected, t, sch, n + 1)

----------------------------------------------------------------------------
(* Initial states, at 09:30 of day 0: the row createScheduleHelper made
   with lock_version 1, after three writes of the hook (generateNextCall,
   markCallAttempted at 09:10, generateNextCall), so at lock_version 4.
   Either the call was skipped (calls_today 0, the next call due at 09:50)
   or it was made (calls_today = DEFAULT_DAILY_LIMIT, so the next call was put
   on the next day at morning_start).  No client has loaded anything yet.
   The columns last_generated and updated_at, rewritten by every update,
   are not tracked. *)

StartOfModel == 9 * 60 + 30

InitRows ==
  { [next_call_due |-> StartOfModel + 20, last_call_time |-> StartOfModel - 20,
     calls_today |-> 0, daily_reset_date |-> Today(StartOfModel), lock_version |-> 1 + 3],
    [next_call_due |-> MinutesPerDay + 9 * 60, last_call_time |-> StartOfModel - 20,
     calls_today |-> DEFAULT_DAILY_LIMIT, daily_reset_date |-> Today(StartOfModel),
     lock_version |-> 1 + 3] }

NoSched == [lane |-> "off"]

Init ==
  /\ db \in InitRows
  /\ callHistory = [attempt |-> 0, daily_reset |-> 0]
  /\ now = StartOfModel
  /\ cache = [c \in Clients |-> NoRow]
  /\ hook = [c \in Clients |-> [scheduleHelper |-> NoRow, callsToday |-> 0,
                                nextCallTime |-> NULL, error |-> NoError]]
  /\ sched = NoSched
  /\ schema \in Schemas

----------------------------------------------------------------------------
(* Actions *)

\* a day passes; an operation, once started, ends within seconds
Tick ==
  /\ Today(now) < MaxDay
  /\ now' = now + TickMinutes
  /\ UNCHANGED <<db, callHistory, cache, hook, sched, schema>>

\* updateScheduleHelper for the operation o of client c, whose cache
\* entry is `entry`, and what follows it in the hook: setState after a
\* commit, the catch block after the error withRetry threw.
Write(c, o, entry) ==
  LET r == WithRetry(db, o.updates, o.expected, now, schema, 1)
  IN /\ db' = r.row
     /\ IF r.error = NoError
        THEN /\ cache' = [cache EXCEPT ![c] = InvalidateCache(entry)]
             /\ hook' = [hook EXCEPT ![c] = CommittedState(hook[c], o, r.row)]
        ELSE /\ cache' = [cache EXCEPT ![c] = entry]
             /\ hook' = [hook EXCEPT ![c].error = r.error]

\* loadInitialData: the read, and the daily reset when the row read is stale
LoadInitialData(c) ==
  /\ LET helper == GetScheduleHelper(c) IN
       IF helper.daily_reset_date # Today(now)
       THEN /\ helper.lock_version < MaxVersion
            /\ Write(c, StartWrite("load", helper,
                                   [calls_today |-> 0, daily_reset_date |-> Today(now)]),
                     CacheAfterGet(c))
       ELSE /\ cache' = [cache EXCEPT ![c] = CacheAfterGet(c)]
            /\ hook' = [hook EXCEPT ![c] = LoadedState(helper)]
            /\ UNCHANGED db
  /\ UNCHANGED <<callHistory, now, sched, schema>>

\* refreshSchedule
RefreshSchedule(c) ==
  /\ LET helper == GetScheduleHelper(c) IN
       /\ cache' = [cache EXCEPT ![c] = CacheAfterGet(c)]
       /\ hook' = [hook EXCEPT ![c] = LoadedState(helper)]
  /\ UNCHANGED <<db, callHistory, now, sched, schema>>

\* (variant: the write issued whatever the result)
ShouldWrite_Always(result) == TRUE

\* if (result.success && result.nextCallTime)
ShouldWrite(result) == result.success /\ result.nextCallTime # NULL

\* generateNextCall as the useCallback of a render whose hook state was h:
\* state.scheduleHelper is h.scheduleHelper, in the call of the scheduling
\* engine and in the lock_version handed to the conditional write; the
\* setState calls are functional updates, applied to the state of the moment
GenerateFrom(c, h, rnd, strat) ==
  /\ h.scheduleHelper # NoRow
  /\ LET helper == h.scheduleHelper
         result == GenerateNextCallTime(<<>>, helper, MainUser, now, MainHostOffset, rnd, strat)
         o      == StartWrite("generate", helper, [next_call_due |-> result.nextCallTime])
     IN IF ShouldWrite(result)
        THEN Write(c, o, cache[c])
        ELSE /\ hook' = [hook EXCEPT ![c].error = <<"", "Failed to generate call time">>]
             /\ UNCHANGED <<db, cache>>
  /\ UNCHANGED <<callHistory, now, schema>>

\* generateNextCall, called from the current render: the scheduling engine,
\* then the conditional write
GenerateNextCall(c, rnd, strat) ==
  /\ hook[c].scheduleHelper # NoRow
  /\ hook[c].scheduleHelper.lock_version < MaxVersion
  /\ GenerateFrom(c, hook[c], rnd, strat)
  /\ UNCHANGED sched

\* markCallAttempted: the call_history row is inserted, then the
\* conditional write.  An insert the constraints of call_history refuse is
\* refused at each attempt of withRetry, and the operation ends there.
MarkCall(c, status) ==
  /\ hook[c].nextCallTime # NULL
  /\ hook[c].scheduleHelper # NoRow
  /\ IF CallHistoryChecks(schema, status, now, hook[c].nextCallTime)
     THEN /\ callHistory' = [callHistory EXCEPT !.attempt = @ + 1]
          /\ Write(c, StartWrite("mark", hook[c].scheduleHelper,
                                 MarkUpdates(hook[c], status)), cache[c])
     ELSE /\ hook' = [hook EXCEPT ![c].error = NetworkError(CheckViolation)]
          /\ UNCHANGED <<db, callHistory, cache>>
  /\ UNCHANGED <<now, schema>>

\* markCallAttempted, called from the current render
MarkCallAttempted(c, status) ==
  /\ hook[c].scheduleHelper # NoRow
  /\ hook[c].scheduleHelper.lock_version < MaxVersion
  /\ callHistory.attempt < MaxHistory
  /\ MarkCall(c, status)
  /\ UNCHANGED sched

\* rescheduleCall(MIN_CALL_GAP_MINUTES): v is what validateCallTime said of
\* the requested time (valid; invalid with a suggested time, here the next
\* morning_start; invalid without one); then the conditional write
RescheduleCall(c, v) ==
  /\ hook[c].nextCallTime # NULL
  /\ hook[c].scheduleHelper # NoRow
  /\ hook[c].scheduleHelper.lock_version < MaxVersion
  /\ LET helper == hook[c].scheduleHelper
         time   == IF v = "valid" THEN now + MIN_CALL_GAP_MINUTES
                   ELSE GetNextDayFirstCall(now, MainHostOffset, MainUser, 0)
         o      == StartWrite("reschedule", helper, [next_call_due |-> time])
     IN IF v = "rejected"
        THEN /\ hook' = [hook EXCEPT ![c].error = <<"ValidationError", "Cannot reschedule">>]
             /\ UNCHANGED <<db, cache>>
        ELSE Write(c, o, cache[c])
  /\ UNCHANGED <<callHistory, now, sched, schema>>

\* the database function reset_daily_call_counts() of database/setup.sql,
\* run when the date has changed: the UPDATE of the stale row, then one
\* call_history row for the user reset today.  (A run that finds no stale
\* row only adds that row; a run whose UPDATE fails a CHECK constraint
\* changes nothing.)
ResetDailyCallCounts ==
  /\ schema = "setup"
  /\ db.daily_reset_date < Today(now)
  /\ FutureNextCall(db, now)
  /\ db' = [db EXCEPT !.calls_today = 0, !.daily_reset_date = Today(now)]
  /\ callHistory' = [callHistory EXCEPT !.daily_reset = @ + 1]
  /\ UNCHANGED <<now, cache, hook, sched, schema>>

Next ==
  \/ Tick
  \/ ResetDailyCallCounts
  \/ \E c \in Clients : LoadInitialData(c)
  \/ \E c \in Clients : RefreshSchedule(c)
  \/ \E c \in Clients, rnd \in HookRandomMinutes, strat \in {"found", "exhausted"} :
       GenerateNextCall(c, rnd, strat)
  \/ \E c \in Answering, status \in {"called", "skipped", "later"} : MarkCallAttempted(c, status)
  \/ \E c \in Answering, v \in {"valid", "suggested", "rejected"} : RescheduleCall(c, v)

Spec == Init /\ [][Next]_vars

----------------------------------------------------------------------------
(* The CallScheduler lane: one CallScheduler, constructed for a user with
   options.maxAttempts, and one call of generateNextCallTime(blockedTimes,
   scheduleHelper) at time sched.now on a host whose clock is `offset`
   minutes ahead of UTC.  users.timezone is the user's own offset (Asia/Tokyo,
   as in the tests).  The
   call is followed loop iteration by loop iteration:
     phase         where the call is: start, basic, pattern, relax, done
     attempts      `attempts` of the running strategy (`totalAttempts` in
                   findTimeWithConstraintRelaxation)
     constraints   `constraints` of the running strategy
     totalAttempts, allConstraints   those of generateNextCallTime
     slots         preferredSlots;  relaxIdx  the relaxation strategy running
     validated     validateCallTime calls made so far by each strategy
     tried         loop iterations made so far by each strategy
     seen          the reasons validateCallTime has returned so far *)

MaxCallsToday == 3      \* calls_today and daily_call_limit range up to this
MaxAttempts == 3        \* options.maxAttempts of the scheduler

AllDays == {"Sun", "Mon", "Tue", "Wed", "Thu", "Fri", "Sat"}
WorkDays == {"Mon", "Tue", "Wed", "Thu", "Fri"}

SchedUsers ==
  { [daily_call_limit |-> l, morning_start |-> m, evening_end |-> 1260, timezone |-> 540,
     active_days |-> a]
      : l \in 1..MaxCallsToday, m \in {0, 540, 1200}, a \in {AllDays, WorkDays} }

\* a blocked time of the whole day, every day, active
AllDayBlock(p) ==
  [block_name |-> <<"N", "o">>, start_time |-> 0, end_time |-> 1439, repeat_type |-> "daily",
   days_of_week |-> {}, is_active |-> TRUE, priority |-> p]

SchedBlocked == { <<>>, <<AllDayBlock(1)>>, <<AllDayBlock(0)>> }

NoResult == [success |-> FALSE, nextCallTime |-> NULL, attempts |-> 0,
             constraints |-> <<>>, strategies |-> 0]

SchedInit ==
  /\ db \in {r \in InitRows : r.calls_today = 0}
  /\ callHistory = [attempt |-> 0, daily_reset |-> 0]
  /\ now = StartOfModel
  /\ cache = [c \in Clients |-> NoRow]
  /\ hook = [c \in Clients |-> [scheduleHelper |-> NoRow, callsToday |-> 0,
                                nextCallTime |-> NULL, error |-> NoError]]
  /\ schema = "setup"
  /\ \E user \in SchedUsers, blockedTimes \in SchedBlocked, calls \in {0, MaxCallsToday},
        t \in {MinutesPerDay + 675, 2 * MinutesPerDay - 10}, offset \in {-300, 0, 540},
        called \in BOOLEAN :
       sched = [lane |-> "on", user |-> user, blockedTimes |-> blockedTimes,
                calls_today |-> calls, last_call_time |-> IF called THEN t ELSE NULL,
                now |-> t, offset |-> offset, maxAttempts |-> MaxAttempts,
                result |-> NoResult, phase |-> "start", attempts |-> 0,
                constraints |-> <<>>, totalAttempts |-> 0, allConstraints |-> <<>>,
                slots |-> <<>>, relaxIdx |-> 0,
                validated |-> [basic |-> 0, pattern |-> 0, relax |-> 0],
                tried |-> [basic |-> 0, pattern |-> 0, relax |-> 0],
                seen |-> {}]

SchedHelper == [calls_today |-> sched.calls_today, last_call_time |-> sched.last_call_time]

\* generateNextCallTime returns the result of the strategy that found `time`
Succeed(time, constraints, attempts, k, validated) ==
  [sched EXCEPT !.phase = "done", !.attempts = attempts, !.constraints = constraints,
                !.validated = validated,
                !.result = [success |-> TRUE, nextCallTime |-> time,
                            attempts |-> sched.totalAttempts + attempts,
                            constraints |-> constraints, strategies |-> k]]

\* (variant: the preferred-slot strategy left out)
FailStrategy_SkipPattern(constraints, attempts, next, validated) ==
  [sched EXCEPT !.phase = "relax", !.attempts = 0, !.constraints = <<>>,
                !.validated = validated, !.relaxIdx = 1,
                !.totalAttempts = @ + attempts, !.allConstraints = @ \o constraints]

\* a strategy returns without success and generateNextCallTime goes on
\* with the next one
FailStrategy(constraints, attempts, next, validated) ==
  [sched EXCEPT !.phase = next, !.attempts = 0, !.constraints = <<>>,
                !.validated = validated,
                !.relaxIdx = IF next = "relax" THEN 1 ELSE 0,
                !.totalAttempts = @ + attempts, !.allConstraints = @ \o constraints]

\* the last strategy returns without success: generateNextCallTime fails
Exhaust(constraints, attempts, validated) ==
  [sched EXCEPT !.phase = "done", !.attempts = attempts, !.constraints = constraints,
                !.validated = validated,
                !.result = [success |-> FALSE, nextCallTime |-> NULL,
                            attempts |-> sched.totalAttempts + attempts,
                            constraints |-> sched.allConstraints \o constraints,
                            strategies |-> 3]]

\* generateNextCallTime(blockedTimes, scheduleHelper) up to its strategies
SchedGenerateNextCallTime(rnd) ==
  /\ sched.lane = "on"
  /\ sched.phase = "start"
  /\ sched' =
       IF DailyLimitReached(SchedHelper, sched.user)
       THEN [sched EXCEPT !.phase = "done", !.result =
               GenerateNextCallTime(sched.blockedTimes, SchedHelper, sched.user,
                                    sched.now, sched.offset, rnd, "found")]
       ELSE [sched EXCEPT !.phase = "basic"]
  /\ UNCHANGED <<db, callHistory, now, cache, hook, schema>>

\* (variant: the loop of findTimeWithBasicRandomization left one iteration late)
BasicBudgetSpent_Late(attempts, maxAttempts) == attempts > maxAttempts

\* while (attempts < this.maxAttempts) is left
BasicBudgetSpent(attempts, maxAttempts) == attempts >= maxAttempts

\* one iteration of the loop of findTimeWithBasicRandomization; u is the
\* Math.random() drawn
FindTimeWithBasicRandomization(u) ==
  /\ sched.lane = "on"
  /\ sched.phase = "basic"
  /\ LET attempts == sched.attempts + 1
         proposedTime == sched.now + RandomMinutesBetween(MIN_CALL_GAP_MINUTES * 4,
                                                         MAX_CALL_GAP_MINUTES, u)
         validation == ValidateCallTime(proposedTime, sched.blockedTimes, SchedHelper,
                                        sched.user, MIN_CALL_GAP_MINUTES * 4,
                                        sched.now, sched.offset)
         constraints == AddConstraint(sched.constraints, validation.reason)
         suggestedValidation ==
           ValidateCallTime(validation.suggestedTime, sched.blockedTimes, SchedHelper,
                            sched.user, MIN_CALL_GAP_MINUTES * 4, sched.now, sched.offset)
         one == [sched.validated EXCEPT !.basic = @ + 1]
         two == [sched.validated EXCEPT !.basic = @ + 2]
         next ==
           IF validation.isValid
           THEN Succeed(proposedTime, sched.constraints, attempts, 1, one)
           ELSE IF validation.suggestedTime # NULL /\ suggestedValidation.isValid
           THEN Succeed(validation.suggestedTime, constraints, attempts, 1, two)
           ELSE IF BasicBudgetSpent(attempts, sched.maxAttempts)
           THEN FailStrategy(constraints, attempts, "pattern",
                             IF validation.suggestedTime # NULL THEN two ELSE one)
           ELSE [sched EXCEPT !.attempts = attempts, !.constraints = constraints,
                              !.validated =
                                IF validation.suggestedTime # NULL THEN two ELSE one]
     IN sched' = [next EXCEPT
                    !.tried.basic = @ + 1,
                    !.seen = @ \cup Reasons(validation)
                               \cup IF ~validation.isValid /\ validation.suggestedTime # NULL
                                    THEN Reasons(suggestedValidation) ELSE {}]
  /\ UNCHANGED <<db, callHistory, now, cache, hook, schema>>

\* the draws of getPreferredTimeSlots tried: one minute for each optimal hour
SlotMinutes == { <<0, 0, 0, 0, 0, 0>>, <<59, 30, 59, 59, 59, 0>> }

\* the whole minutes of jitter tried
Jitters == {-14, 14}

\* the attempts each relaxation strategy may make
RelaxBudget(maxAttempts) == maxAttempts \div Len(RelaxationStrategies(MIN_CALL_GAP_MINUTES))

\* one iteration of the loop of findTimeWithPatternOptimization, the first
\* one after getPreferredTimeSlots (minutes: its draws); a user whose
\* window holds no optimal hour leaves the strategy at once
FindTimeWithPatternOptimization(minutes, jitter) ==
  /\ sched.lane = "on"
  /\ sched.phase = "pattern"
  /\ LET slots == IF sched.attempts = 0 THEN GetPreferredTimeSlots(sched.user, minutes)
                  ELSE sched.slots
         attempts == sched.attempts + 1
         proposedTime == GetNextOccurrenceOfTimeSlot(slots[attempts], sched.now,
                                                     sched.offset, jitter)
         validation == ValidateCallTime(proposedTime, sched.blockedTimes, SchedHelper,
                                        sched.user, MIN_CALL_GAP_MINUTES * 4,
                                        sched.now, sched.offset)
         constraints == AddConstraint(sched.constraints, validation.reason)
         one == [sched.validated EXCEPT !.pattern = @ + 1]
         fail(cs, as, v) == IF RelaxBudget(sched.maxAttempts) = 0
                            THEN Exhaust(cs, as, v)
                            ELSE FailStrategy(cs, as, "relax", v)
         next ==
           IF validation.isValid
           THEN [Succeed(proposedTime, sched.constraints, attempts, 2, one)
                   EXCEPT !.slots = slots]
           ELSE IF attempts = Len(slots) THEN fail(constraints, attempts, one)
           ELSE [sched EXCEPT !.attempts = attempts, !.constraints = constraints,
                              !.slots = slots, !.validated = one]
     IN sched' =
          IF slots = <<>> THEN fail(<<>>, 0, sched.validated)
          ELSE [next EXCEPT !.slots = slots, !.tried.pattern = @ + 1,
                            !.seen = @ \cup Reasons(validation)]
  /\ UNCHANGED <<db, callHistory, now, cache, hook, schema>>

\* one iteration of the inner loop of findTimeWithConstraintRelaxation,
\* under the relaxation strategy sched.relaxIdx; u is the Math.random() drawn
FindTimeWithConstraintRelaxation(u) ==
  /\ sched.lane = "on"
  /\ sched.phase = "relax"
  /\ LET strategy == RelaxationStrategies(MIN_CALL_GAP_MINUTES)[sched.relaxIdx]
         filteredBlocks == IF strategy.ignoreLowPriorityBlocks
                           THEN HighPriorityBlocks(sched.blockedTimes)
                           ELSE sched.blockedTimes
         totalAttempts == sched.attempts + 1
         proposedTime == sched.now + RandomMinutesBetween(strategy.minGapQ,
                                                         MAX_CALL_GAP_MINUTES, u)
         validation == ValidateCallTime(proposedTime, filteredBlocks, SchedHelper,
                                        sched.user, strategy.minGapQ,
                                        sched.now, sched.offset)
         allConstraints == AddConstraint(sched.constraints, validation.reason)
         one == [sched.validated EXCEPT !.relax = @ + 1]
         next ==
           IF validation.isValid
           THEN Succeed(proposedTime, Append(sched.constraints, <<strategy.description>>),
                        totalAttempts, 3, one)
           ELSE IF totalAttempts < sched.relaxIdx * RelaxBudget(sched.maxAttempts)
           THEN [sched EXCEPT !.attempts = totalAttempts, !.constraints = allConstraints,
                              !.validated = one]
           ELSE IF sched.relaxIdx < Len(RelaxationStrategies(MIN_CALL_GAP_MINUTES))
           THEN [sched EXCEPT !.attempts = totalAttempts, !.constraints = allConstraints,
                              !.validated = one, !.relaxIdx = @ + 1]
           ELSE Exhaust(allConstraints, totalAttempts, one)
     IN sched' = [next EXCEPT !.tried.relax = @ + 1, !.seen = @ \cup Reasons(validation)]
  /\ UNCHANGED <<db, callHistory, now, cache, hook, schema>>

SchedNext ==
  \/ \E rnd \in RandomMinutes : SchedGenerateNextCallTime(rnd)
  \/ \E u \in {"least", "greatest"} : FindTimeWithBasicRandomization(u)
  \/ \E minutes \in SlotMinutes, jitter \in Jitters :
       FindTimeWithPatternOptimization(minutes, jitter)
  \/ \E u \in {"least", "greatest"} : FindTimeWithConstraintRelaxation(u)

SchedSpec == SchedInit /\ [][SchedNext]_vars

----------------------------------------------------------------------------
(* CallScheduler.validateCallTime on its own: one call
   validateCallTime(time, blockedTimes, scheduleHelper) at time sched.now of
   a scheduler built for sched.user, on a host `offset` minutes ahead of UTC.
   The user lives in Asia/Tokyo (UTC+9, as in scheduler.test.ts) with the
   window 09:00-21:00; the candidates are given by their Tokyo wall time. *)

UserZone == 540

ValUsers ==
  { [daily_call_limit |-> DEFAULT_DAILY_LIMIT, morning_start |-> 540, evening_end |-> 1260,
     timezone |-> UserZone, active_days |-> a] : a \in {AllDays, WorkDays, {}} }

\* Lunch 12:00-13:00 daily, priority 1 (scheduler.test.ts)
Lunch ==
  [block_name |-> <<"L", "u", "n", "c", "h">>, start_time |-> 720, end_time |-> 780,
   repeat_type |-> "daily", days_of_week |-> {}, is_active |-> TRUE, priority |-> 1]

\* "N  Z" 12:30-20:50 on weekdays, priority 5
NapZone ==
  [block_name |-> <<"N", " ", " ", "Z">>, start_time |-> 750, end_time |-> 1250,
   repeat_type |-> "weekdays", days_of_week |-> {}, is_active |-> TRUE, priority |-> 5]

ValBlocked ==
  { <<>>, <<Lunch>>, <<[Lunch EXCEPT !.is_active = FALSE]>>, <<Lunch, NapZone>>,
    <<NapZone, Lunch>>, <<AllDayBlock(1)>> }

\* candidates: Friday (day 1) and Saturday (day 2) at a Tokyo wall time
ValTimes ==
  { FromLocal(d, m, UserZone) : d \in {1, 2}, m \in {0, 540, 720, 750, 780, 781, 1251, 1260} }

NoValidation == [isValid |-> FALSE, reason |-> <<"none">>, suggestedTime |-> NULL]

\* The hook of client c1 holds the stored row; the call, or the
\* rescheduleCall that makes it, happens at the time `now`.
ValInit ==
  /\ callHistory = [attempt |-> 0, daily_reset |-> 0]
  /\ cache = [c \in Clients |-> NoRow]
  /\ schema = "setup"
  /\ \E user \in ValUsers, blockedTimes \in ValBlocked, time \in ValTimes,
        t \in {0, 4 * MinutesPerDay}, offset \in {-300, 0, UserZone},
        since \in {NULL, 10}, r \in {r \in InitRows : r.calls_today = 0} :
       LET last == IF since = NULL THEN NULL ELSE time - since
           row  == [r EXCEPT !.last_call_time = last, !.next_call_due = t + 1]
       IN /\ now = t
          /\ db = row
          /\ hook = [c \in Clients |->
                       IF c \in Answering THEN LoadedState(row)
                       ELSE [scheduleHelper |-> NoRow, callsToday |-> 0,
                             nextCallTime |-> NULL, error |-> NoError]]
          /\ sched = [lane |-> "validate", user |-> user, blockedTimes |-> blockedTimes,
                      time |-> time, calls_today |-> row.calls_today,
                      last_call_time |-> last,
                      now |-> t, offset |-> offset, phase |-> "start",
                      validation |-> NoValidation]

\* validateCallTime(time, blockedTimes, scheduleHelper)
ValValidateCallTime ==
  /\ sched.lane = "validate"
  /\ sched.phase = "start"
  /\ sched' = [sched EXCEPT !.phase = "done", !.validation =
                 ValidateCallTime(sched.time, sched.blockedTimes, SchedHelper, sched.user,
                                  MIN_CALL_GAP_MINUTES * 4, sched.now, sched.offset)]
  /\ UNCHANGED <<db, callHistory, now, cache, hook, schema>>

\* rescheduleCall(delayMinutes) of client c, sched.time being now +
\* delayMinutes: the requested time is validated; when it is not valid the
\* suggested time is written in its place, and without a suggested time the
\* call is refused
ValRescheduleCall(c) ==
  /\ sched.lane = "validate"
  /\ sched.phase = "start"
  /\ sched.time > sched.now
  /\ hook[c].nextCallTime # NULL /\ hook[c].scheduleHelper # NoRow
  /\ LET validation == ValidateCallTime(sched.time, sched.blockedTimes,
                                        hook[c].scheduleHelper, sched.user,
                                        MIN_CALL_GAP_MINUTES * 4, now, sched.offset)
         time == IF validation.isValid THEN sched.time ELSE validation.suggestedTime
         o    == StartWrite("reschedule", hook[c].scheduleHelper, [next_call_due |-> time])
     IN /\ IF ~validation.isValid /\ validation.suggestedTime = NULL
           THEN /\ hook' = [hook EXCEPT
                              ![c].error = <<"ValidationError", "Cannot reschedule">>]
                /\ UNCHANGED <<db, cache>>
           ELSE Write(c, o, cache[c])
        /\ sched' = [sched EXCEPT !.phase = "rescheduled", !.validation = validation]
  /\ UNCHANGED <<callHistory, now, schema>>

ValNext ==
  \/ ValValidateCallTime
  \/ \E c \in Answering : ValRescheduleCall(c)

ValSpec == ValInit /\ [][ValNext]_vars

----------------------------------------------------------------------------
(* Steps of the hook lane, as seen in a pair of states *)

\* client c's conditional write commits in this step: the stored row
\* changes and c's hook takes the row returned
Commits(c) == db' # db /\ hook'[c].scheduleHelper = db'

\* this step is a loadInitialData of client c that reaches its write, the
\* daily reset
DailyReset(c) ==
  GetScheduleHelper(c).daily_reset_date # Today(now) /\ LoadInitialData(c)

\* the lock_version the operation of client c in this step hands to its
\* write: the one loadInitialData has read from getScheduleHelper, the one
\* of the hook state for the other operations
ReadVersion(c) ==
  IF DailyReset(c) THEN GetScheduleHelper(c).lock_version
  ELSE hook[c].scheduleHelper.lock_version

\* this step is a generateNextCall of client c that reaches its write
GenerateWrites(c) == \E rnd \in HookRandomMinutes : GenerateNextCall(c, rnd, "found")

\* this step is a generateNextCall of client c whose generateNextCallTime
\* returns a failure
GenerateFails(c) ==
  /\ hook[c].scheduleHelper # NoRow
  /\ ~DailyLimitReached(hook[c].scheduleHelper, MainUser)
  /\ \E rnd \in HookRandomMinutes : GenerateNextCall(c, rnd, "exhausted")

\* this step is a markCallAttempted of client c that reaches its write
MarkWrites(c) ==
  \E status \in {"called", "skipped", "later"} :
    MarkCallAttempted(c, status) /\ callHistory' # callHistory

\* this step is a rescheduleCall of client c that reaches its write
RescheduleWrites(c) == \E v \in {"valid", "suggested"} : RescheduleCall(c, v)

\* the write of a generateNextCall, markCallAttempted or rescheduleCall of
\* client c in this step is rejected because the stored lock_version is not
\* the one of the hook state
HookMismatch(c) ==
  /\ hook[c].scheduleHelper # NoRow
  /\ db.lock_version # hook[c].scheduleHelper.lock_version
  /\ GenerateWrites(c) \/ MarkWrites(c) \/ RescheduleWrites(c)

\* the write of client c in this step is rejected because the stored
\* lock_version is not the one it expects
Mismatch(c) ==
  \/ HookMismatch(c)
  \/ (GetScheduleHelper(c).lock_version # db.lock_version /\ DailyReset(c))

----------------------------------------------------------------------------
(* Claims *)

\* C1: of two generateNextCall operations of one user that read the same
\* lock_version and reach their conditional write, exactly one commits and
\* the other ends with the concurrent-modification error: a generateNextCall
\* commits only from the lock_version it read and moves the row off that
\* version, it does commit when it finds that version, and when it does not
\* it ends, in that step, with the concurrent-modification error.
C1_ExactlyOneCommits ==
  [][\A c \in Clients :
       GenerateWrites(c) =>
         /\ Commits(c) => (db.lock_version = ReadVersion(c)
                             /\ db'.lock_version # db.lock_version)
         /\ db.lock_version = ReadVersion(c) => Commits(c)
         /\ Mismatch(c) => hook'[c].error = ConcurrentModification]_vars

\* C2: a version mismatch reaches the caller after the single attempt, as
\* the concurrent-modification error: no write is issued again with the
\* stale version, and the hook never ends up with another kind of error for
\* it.
C2_NoStaleRetry ==
  [][\A c \in Clients :
       Mismatch(c) => hook'[c].error = ConcurrentModification]_vars

\* C3: every write the hook commits is conditioned on the lock_version
\* read at the start of the operation and leaves the stored lock_version
\* one greater; the stored lock_version never decreases.
C3_VersionedWrites ==
  [][/\ \A c \in Clients :
          Commits(c) => /\ db.lock_version = ReadVersion(c)
                        /\ db'.lock_version = db.lock_version + 1
     /\ db'.lock_version >= db.lock_version]_vars

\* C3 witness: the daily reset of loadInitialData has committed on the
\* second day, from the initial lock_version
C3_Witness ==
  \E c \in Clients :
    /\ hook[c].scheduleHelper = db
    /\ db.daily_reset_date = Today(now)
    /\ db.daily_reset_date > Today(StartOfModel)
    /\ db.calls_today = 0
    /\ db.lock_version = 1 + 3 + 1

\* C4: every change of next_call_due, last_call_time, calls_today or
\* daily_reset_date comes with an increment of lock_version.
C4_OnlyVersionedChanges ==
  [][(\E f \in {"next_call_due", "last_call_time", "calls_today", "daily_reset_date"} :
        db'[f] # db[f])
       => db'.lock_version = db.lock_version + 1]_vars

\* C5: a committed markCallAttempted(status) clears next_call_due, sets
\* last_call_time to now, and sets calls_today to the stored value plus one
\* for status called, and leaves it as stored for skipped and later.
C5_MarkWrite ==
  [][\A c \in Clients, status \in {"called", "skipped", "later"} :
       (Commits(c) /\ MarkCallAttempted(c, status))
         => /\ db'.next_call_due = NULL
            /\ db'.last_call_time = now
            /\ db'.calls_today = db.calls_today + (IF status = "called" THEN 1 ELSE 0)]_vars

\* C5 witness: a markCallAttempted('called') has committed and counted
C5_Witness ==
  \E c \in Clients :
    /\ hook[c].scheduleHelper = db
    /\ db.next_call_due = NULL
    /\ db.last_call_time = now
    /\ db.calls_today \in {1, DEFAULT_DAILY_LIMIT + 1}

\* C6: a conditional write of generateNextCall, markCallAttempted or
\* rescheduleCall that is rejected for a version mismatch leaves the stored
\* row as it was.
C6_RejectedWriteChangesNothing ==
  [][\A c \in Clients :
       db' # db => ~HookMismatch(c)]_vars

\* C6 witness: a markCallAttempted whose write was rejected
C6_Witness ==
  \E c \in Clients :
    /\ callHistory.attempt >= 1
    /\ hook[c].error = NetworkError(ConcurrentModification)
    /\ hook[c].scheduleHelper.lock_version # db.lock_version
    /\ db.next_call_due # NULL

\* C7: the re-read (refreshSchedule, loadInitialData) of a client whose
\* operation failed on a version mismatch returns the lock_version that is
\* stored.
C7_RereadIsCurrent ==
  [][\A c \in Clients :
       (/\ hook[c].error = NetworkError(ConcurrentModification)
        /\ RefreshSchedule(c) \/ LoadInitialData(c))
         => GetScheduleHelper(c).lock_version = db.lock_version]_vars

\* C8: generateNextCallTime with calls_today >= daily_call_limit returns
\* success, the instant of morning_start on the next calendar day plus 0 to
\* 59 minutes, constraints [daily_limit_reached], with no strategy run,
\* whatever the blocked times.
C8_QuotaShortCircuit ==
  (sched.lane = "on" /\ sched.result # NoResult
     /\ sched.calls_today >= sched.user.daily_call_limit)
    => /\ sched.result.success
       /\ sched.result.constraints = << <<"daily_limit_reached">> >>
       /\ sched.result.strategies = 0
       /\ \E j \in 0..59 :
            sched.result.nextCallTime =
              ((sched.now + sched.offset) \div MinutesPerDay + 1) * MinutesPerDay
                - sched.offset + sched.user.morning_start + j

\* C8 witness: the limit reached, blocked times given, a result returned
C8_Witness ==
  /\ sched.lane = "on"
  /\ sched.calls_today >= sched.user.daily_call_limit
  /\ sched.blockedTimes # <<>>
  /\ sched.result.success

\* C9: a generateNextCall on a hook state whose daily_reset_date is not
\* today does not take the daily-limit short-circuit, and the write it
\* commits resets calls_today to 0 and daily_reset_date to today.
C9_StaleDateReset ==
  [][\A c \in Clients, rnd \in HookRandomMinutes :
       (/\ Commits(c)
        /\ GenerateNextCall(c, rnd, "found")
        /\ hook[c].scheduleHelper.daily_reset_date # Today(now))
         => /\ db'.next_call_due # GetNextDayFirstCall(now, MainHostOffset, MainUser, rnd)
            /\ db'.calls_today = 0
            /\ db'.daily_reset_date = Today(now)]_vars

\* C10: the daily reset of loadInitialData, when it commits, leaves
\* calls_today = 0 and daily_reset_date = today, and the reset logic run
\* again by a client that holds the row so reset does not fail.
C10_IdempotentReset ==
  [][\A c \in Clients :
       /\ (Commits(c) /\ DailyReset(c))
            => (db'.calls_today = 0 /\ db'.daily_reset_date = Today(now))
       /\ (DailyReset(c) /\ ~Commits(c))
            => (hook[c].scheduleHelper = NoRow
                  \/ hook[c].scheduleHelper # db
                  \/ db.daily_reset_date # Today(now))]_vars

----------------------------------------------------------------------------
(* Claims about the CallScheduler *)

\* generateNextCallTime has returned an instant
Returned == sched.lane = "on" /\ sched.phase = "done" /\ sched.result.success

\* the result's constraints record the tag
Records(tag) ==
  \E i \in 1..Len(sched.result.constraints) : sched.result.constraints[i] = <<tag>>

\* C11: every instant a successful generateNextCallTime returns has a
\* time of day, in the user's time zone, from morning_start up to but not
\* including evening_end, and falls, in the user's time zone, on a weekday
\* of active_days.
C11_WindowContainment ==
  Returned =>
    /\ TimeStr(sched.result.nextCallTime, sched.user.timezone) >= sched.user.morning_start
    /\ TimeStr(sched.result.nextCallTime, sched.user.timezone) < sched.user.evening_end
    /\ DayName(sched.result.nextCallTime, sched.user.timezone) \in sched.user.active_days

\* C12: every instant a successful generateNextCallTime returns when
\* last_call_time is present is at least minGapMinutes after it, or at
\* least the relaxed gap after it when the constraints record the
\* relaxation that was used.
C12_GapInvariant ==
  (Returned /\ sched.last_call_time # NULL) =>
    \/ sched.result.nextCallTime - sched.last_call_time >= MIN_CALL_GAP_MINUTES
    \/ \E k \in 1..Len(RelaxationStrategies(MIN_CALL_GAP_MINUTES)) :
         LET r == RelaxationStrategies(MIN_CALL_GAP_MINUTES)[k]
         IN /\ Records(r.description)
            /\ (sched.result.nextCallTime - sched.last_call_time) * 4 >= r.minGapQ

\* C13: no instant a successful generateNextCallTime returns has its time
\* of day, in the user's time zone, inside an active blocked time that
\* applies on its weekday, unless that blocked time has priority 0 and the
\* constraints record ignore_low_priority_blocks.
C13_NonOverlap ==
  Returned =>
    \A i \in 1..Len(sched.blockedTimes) :
      LET b == sched.blockedTimes[i]
      IN (b.is_active /\ IsTimeInBlockedPeriod(sched.result.nextCallTime, b,
                                               sched.user.timezone))
           => (b.priority = 0 /\ Records("ignore_low_priority_blocks"))

\* the loop iterations generateNextCallTime can still make at most: the
\* strategies not yet run, each counted as maxAttempts + 7 iterations
\* (more than any of them makes), less the iterations of the running one
Remaining ==
  LET K == sched.maxAttempts + Len(OptimalHours) + 1
  IN CASE sched.phase = "start"   -> 4 * K
       [] sched.phase = "basic"   -> 3 * K - sched.attempts
       [] sched.phase = "pattern" -> 2 * K - sched.attempts
       [] sched.phase = "relax"   -> K - sched.attempts
       [] sched.phase = "done"    -> 0

\* every step of the call uses up one of the iterations that remain
Proceeds ==
  sched'.lane = "on" => (Remaining >= 0 /\ (Remaining >= 0)' /\ Remaining' < Remaining)

\* the candidates validated so far are within the budgets as stated
StatedBudget ==
  sched.lane = "on" =>
    /\ sched.validated.basic <= sched.maxAttempts
    /\ sched.validated.pattern <= Len(OptimalHours)
    /\ sched.validated.relax <= 3 * (sched.maxAttempts \div 3)

\* the candidates drawn and validated so far are within the budgets of
\* the loops
LoopBudget ==
  sched.lane = "on" =>
    /\ sched.phase = "basic" => sched.attempts < sched.maxAttempts
    /\ sched.validated.basic <= 2 * sched.maxAttempts
    /\ sched.result.strategies = 1 => sched.result.attempts <= sched.maxAttempts
    /\ sched.validated.pattern <= Len(OptimalHours)
    /\ sched.validated.relax <= 3 * (sched.maxAttempts \div 3)

\* C20 as stated: every generateNextCallTime call returns, and the
\* candidates it has validated number at most maxAttempts in the
\* random-offset strategy, 6 in the preferred-slot strategy and
\* 3 * floor(maxAttempts / 3) in the relaxation strategy.
C20_CandidateBudget == [][StatedBudget /\ StatedBudget' /\ Proceeds]_vars

\* C20, amended: every generateNextCallTime call returns; the random-offset
\* strategy draws at most maxAttempts candidates and validates, for each,
\* at most one suggested time more (2 * maxAttempts validations at most);
\* the preferred-slot strategy validates at most 6 candidates and the
\* relaxation strategy at most 3 * floor(maxAttempts / 3).
C20_Termination == [][LoopBudget /\ LoopBudget' /\ Proceeds]_vars

\* a call that found no slot: every strategy has used up its budget, the
\* first one with a suggested time validated at each attempt
C20_Witness ==
  /\ sched.lane = "on" /\ sched.phase = "done" /\ ~sched.result.success
  /\ sched.validated.basic = 2 * sched.maxAttempts
  /\ sched.validated.pattern > 0
  /\ sched.validated.relax = 3 * (sched.maxAttempts \div 3)

\* generateNextCallTime has returned without an instant, all three
\* strategies having failed
Exhausted == sched.lane = "on" /\ sched.phase = "done" /\ ~sched.result.success

\* C21: when all three strategies fail, generateNextCallTime returns
\* success = false, metadata.attempts the sum of the attempts of the three
\* strategies, and metadata.constraints holding every reason a validation
\* made by any of the three strategies gave.
C21_ExhaustedDiagnostics ==
  Exhausted =>
    /\ sched.result.attempts = sched.tried.basic + sched.tried.pattern + sched.tried.relax
    /\ \A reason \in sched.seen :
         \E i \in 1..Len(sched.result.constraints) : sched.result.constraints[i] = reason

\* C23: with no blocked times, no last_call_time and calls_today below
\* the daily limit, every instant generateNextCallTime returns is at least
\* minGapMinutes after the time of the call and has a time of day, in the
\* user's time zone, inside the daily window, whichever strategy found it.
C23_FreshSchedule ==
  ( /\ Returned
    /\ sched.blockedTimes = <<>>
    /\ sched.last_call_time = NULL
    /\ sched.calls_today < sched.user.daily_call_limit ) =>
    /\ sched.result.nextCallTime - sched.now >= MIN_CALL_GAP_MINUTES
    /\ TimeStr(sched.result.nextCallTime, sched.user.timezone) >= sched.user.morning_start
    /\ TimeStr(sched.result.nextCallTime, sched.user.timezone) < sched.user.evening_end

\* C24: generateNextCallTime runs the random-offset strategy, then the
\* preferred-slot strategy, then the constraint-relaxation strategy; a
\* strategy makes an attempt only after every earlier one has used up its
\* attempts without success, and the call returns the instant of the first
\* strategy that succeeds, no later strategy having made an attempt.
C24_StrategyOrder ==
  [][sched'.lane = "on" =>
       /\ sched.phase = "start" => sched'.phase \in {"basic", "done"}
       /\ sched.phase = "basic" => sched'.phase \in {"basic", "pattern", "done"}
       /\ sched.phase = "pattern" => sched'.phase \in {"pattern", "relax", "done"}
       /\ sched.phase = "relax" => sched'.phase \in {"relax", "done"}
       /\ sched'.tried.basic > sched.tried.basic
            => (sched.tried.pattern = 0 /\ sched.tried.relax = 0)
       /\ sched'.tried.pattern > sched.tried.pattern
            => (sched.tried.basic = sched.maxAttempts /\ sched.tried.relax = 0)
       /\ sched'.tried.relax > sched.tried.relax
            => (sched.tried.basic = sched.maxAttempts
                  /\ sched.tried.pattern = Len(sched.slots))
       /\ (sched'.phase = "done" /\ sched'.result.success) =>
            /\ sched'.result.strategies = 1 =>
                 (sched'.tried.pattern = 0 /\ sched'.tried.relax = 0)
            /\ sched'.result.strategies = 2 =>
                 (sched'.tried.pattern > sched.tried.pattern /\ sched'.tried.relax = 0)
            /\ sched'.result.strategies = 3 => sched'.tried.relax > sched.tried.relax]_vars

\* C24 witness: the preferred-slot strategy has found the instant returned,
\* after the random-offset strategy had used up its attempts
C24_Witness ==
  /\ Returned
  /\ sched.result.strategies = 2
  /\ sched.tried.basic = sched.maxAttempts
  /\ sched.tried.relax = 0

\* C25: an instant the constraint-relaxation strategy returns has passed
\* the validation (made with the clock of the host) against every active
\* blocked time of priority above 0 and against a minimum gap of at least
\* half of minGapMinutes; blocked times are left out only when of priority
\* 0 and only in the last pass; the last of the result's constraints names
\* the relaxation applied.
C25_RelaxedValidation ==
  (Returned /\ sched.result.strategies = 3) =>
    \E k \in 1..Len(RelaxationStrategies(MIN_CALL_GAP_MINUTES)) :
      LET r == RelaxationStrategies(MIN_CALL_GAP_MINUTES)[k]
          time == sched.result.nextCallTime
      IN /\ sched.result.constraints[Len(sched.result.constraints)] = <<r.description>>
         /\ r.description \in {"reduced_min_gap", "minimal_gap", "ignore_low_priority_blocks"}
         /\ r.minGapQ >= 2 * MIN_CALL_GAP_MINUTES
         /\ sched.last_call_time # NULL => (time - sched.last_call_time) * 4 >= r.minGapQ
         /\ r.ignoreLowPriorityBlocks => k = Len(RelaxationStrategies(MIN_CALL_GAP_MINUTES))
         /\ \A i \in 1..Len(sched.blockedTimes) :
              LET b == sched.blockedTimes[i]
              IN (b.is_active /\ (b.priority > 0 \/ ~r.ignoreLowPriorityBlocks))
                   => ~IsTimeInBlockedPeriod(time, b, sched.offset)

\* C25 witness: the last pass has returned an instant inside a blocked
\* time of priority 0, and says so
C25_Witness ==
  /\ Returned
  /\ sched.result.strategies = 3
  /\ Records("ignore_low_priority_blocks")
  /\ \E i \in 1..Len(sched.blockedTimes) :
       /\ sched.blockedTimes[i].priority = 0
       /\ IsTimeInBlockedPeriod(sched.result.nextCallTime, sched.blockedTimes[i], sched.offset)

----------------------------------------------------------------------------
(* Claims about validateCallTime *)

\* validateCallTime has returned
Validated == sched.lane = "validate" /\ sched.phase = "done"

\* the candidate's time of day and weekday in the user's time zone
UserTime == TimeStr(sched.time, sched.user.timezone)
UserDay == DayName(sched.time, sched.user.timezone)

\* the candidate keeps the minimum gap
GapKept ==
  sched.last_call_time = NULL \/ sched.time - sched.last_call_time >= MIN_CALL_GAP_MINUTES

\* the active blocked times the candidate is in, for a reader of the clock
\* at UTC+zone
Matching(zone) ==
  { i \in 1..Len(sched.blockedTimes) :
      /\ sched.blockedTimes[i].is_active
      /\ IsTimeInBlockedPeriod(sched.time, sched.blockedTimes[i], zone) }

\* the reason validateCallTime gives for blocked time i
BlockedReason(i) == <<"blocked_">> \o ReasonName(sched.blockedTimes[i].block_name)

\* the call was rejected for a blocked time
RejectedAsBlocked ==
  /\ ~sched.validation.isValid
  /\ \E i \in 1..Len(sched.blockedTimes) : sched.validation.reason = BlockedReason(i)

\* C14: whatever the host's time zone, validateCallTime accepts a candidate
\* at morning_start in the user's time zone (on an active day, keeping the
\* gap, in no blocked time, in the future) and rejects a candidate at 00:00
\* in the user's time zone, the window being 09:00-21:00, with
\* outside_daily_window.
C14_UserTimezone ==
  Validated =>
    /\ ( /\ UserTime = sched.user.morning_start
         /\ UserDay \in sched.user.active_days
         /\ GapKept
         /\ Matching(sched.user.timezone) = {}
         /\ sched.time > sched.now ) => sched.validation.isValid
    /\ ( /\ UserTime = 0
         /\ sched.user.morning_start = 540
         /\ sched.user.evening_end = 1260 )
         => sched.validation.reason = <<"outside_daily_window">>

\* C15: a candidate inside the daily window, on an active day and keeping
\* the minimum gap is rejected with blocked_<name in lower case, whitespace
\* as underscores> of a blocked time exactly when its time of day in the
\* user's time zone is from start_time to end_time, both included, of an
\* active blocked time that applies on its weekday; when it is in none and
\* in the future it is valid.
C15_BlockedReason ==
  ( /\ Validated
    /\ UserTime >= sched.user.morning_start /\ UserTime < sched.user.evening_end
    /\ UserDay \in sched.user.active_days
    /\ GapKept ) =>
    /\ RejectedAsBlocked <=> Matching(sched.user.timezone) # {}
    /\ RejectedAsBlocked =>
         \E i \in Matching(sched.user.timezone) : sched.validation.reason = BlockedReason(i)
    /\ (Matching(sched.user.timezone) = {} /\ sched.time > sched.now)
         => sched.validation.isValid

\* the checks of validateCallTime, each on its own
WindowFails ==
  \/ TimeStr(sched.time, sched.offset) < sched.user.morning_start
  \/ TimeStr(sched.time, sched.offset) > sched.user.evening_end
DayFails == DayName(sched.time, sched.offset) \notin sched.user.active_days
GapFails == ~GapKept
BlockFails == Matching(sched.offset) # {}
PastFails == sched.time <= sched.now

\* C16: validateCallTime checks the daily window, the active day, the
\* minimum gap, the blocked times and the past in this order and returns
\* the reason of the first check that fails.
C16_CheckOrder ==
  Validated =>
    CASE WindowFails -> sched.validation.reason = <<"outside_daily_window">>
      [] ~WindowFails /\ DayFails -> sched.validation.reason = <<"inactive_day">>
      [] ~WindowFails /\ ~DayFails /\ GapFails ->
           sched.validation.reason = <<"min_gap_violation">>
      [] ~WindowFails /\ ~DayFails /\ ~GapFails /\ BlockFails -> RejectedAsBlocked
      [] ~WindowFails /\ ~DayFails /\ ~GapFails /\ ~BlockFails /\ PastFails ->
           sched.validation.reason = <<"past_time">>
      [] OTHER -> sched.validation.isValid

\* a candidate outside the window and inside a blocked time is reported as
\* outside_daily_window, and one breaking the gap inside a blocked time
\* would be reported as min_gap_violation
C16_Witness ==
  /\ Validated
  /\ WindowFails /\ BlockFails /\ GapFails /\ PastFails
  /\ sched.validation.reason = <<"outside_daily_window">>

\* C17: when the candidate is in several active blocked times that apply
\* on its weekday, the one reported in the reason and used for the
\* suggested time has the highest priority among them, whatever the order
\* of the list.
C17_HighestPriority ==
  (Validated /\ RejectedAsBlocked) =>
    \E i \in Matching(sched.offset) :
      /\ \A j \in Matching(sched.offset) :
           sched.blockedTimes[j].priority <= sched.blockedTimes[i].priority
      /\ sched.validation.reason = BlockedReason(i)
      /\ sched.validation.suggestedTime =
           FindNextAvailableTimeAfterBlock(sched.time, sched.blockedTimes[i], sched.user,
                                           sched.offset)

\* C18: the time suggested for a candidate rejected as blocked has its
\* time of day, in the user's time zone, inside the daily window.
C18_EscapeInsideWindow ==
  (Validated /\ RejectedAsBlocked) =>
    /\ TimeStr(sched.validation.suggestedTime, sched.user.timezone) >= sched.user.morning_start
    /\ TimeStr(sched.validation.suggestedTime, sched.user.timezone) <= sched.user.evening_end

\* C19: a candidate rejected with inactive_day gets morning_start of the
\* first active weekday of the following seven days as the suggested time,
\* and no time at all when active_days has no weekday.
C19_NextActiveDay ==
  (Validated /\ sched.validation.reason = <<"inactive_day">>) =>
    IF sched.user.active_days = {}
    THEN sched.validation.suggestedTime = NULL
    ELSE \E i \in 1..7 :
           /\ DayName(sched.time + i * MinutesPerDay, sched.offset) \in sched.user.active_days
           /\ \A j \in 1..(i - 1) :
                DayName(sched.time + j * MinutesPerDay, sched.offset)
                  \notin sched.user.active_days
           /\ sched.validation.suggestedTime =
                FromLocal(LocalDay(sched.time, sched.offset) + i, sched.user.morning_start,
                          sched.offset)

----------------------------------------------------------------------------
(* Claims about the hook, continued *)

\* C22: a generateNextCall whose generateNextCallTime returns a failure
\* issues no write: the stored row, next_call_due and lock_version
\* included, is after the operation what it was before.
C22_NoWriteOnFailure ==
  [][\A c \in Clients : db' # db => ~GenerateFails(c)]_vars

\* C22 witness: a generateNextCall has ended with the failure of the
\* scheduling engine, on a client that holds the stored row
C22_Witness ==
  \E c \in Clients :
    /\ hook[c].error = <<"", "Failed to generate call time">>
    /\ hook[c].scheduleHelper = db

\* rescheduleCall has committed the suggested time of its validation
SuggestedTimeCommitted ==
  /\ sched.lane = "validate" /\ sched.phase = "rescheduled"
  /\ ~sched.validation.isValid
  /\ \E c \in Answering : hook[c].error = NoError /\ hook[c].scheduleHelper = db
  /\ db.next_call_due = sched.validation.suggestedTime

\* C26: the suggested time of a validation becomes next_call_due only
\* after it has itself passed validateCallTime against the same blocked
\* times and schedule state; here for rescheduleCall.
C26_SuggestionRevalidated ==
  SuggestedTimeCommitted =>
    ValidateCallTime(db.next_call_due, sched.blockedTimes, SchedHelper, sched.user,
                     MIN_CALL_GAP_MINUTES * 4, sched.now, sched.offset).isValid

----------------------------------------------------------------------------
(* The Dashboard lane: both sessions show the Dashboard.  Each handler is a
   closure of the render in which it was created, and so are the
   generateNextCall and markCallAttempted it calls (useCallback over
   state.scheduleHelper and state.callsToday).  handleCallNow and handleSkip
   await markCallAttempted and then arm a timer whose callback is the
   handleGenerateCall of their own render:
     sched.timer[c]   the hook state of the render that armed the pending
                      timer of client c, NoRow when none is pending *)

MaxMarks == 2           \* cap on the call_history rows of the Dashboard lane
MaxDashVersion == 6     \* no handler starts a write expecting this version or more

DashInit ==
  /\ db \in InitRows
  /\ callHistory = [attempt |-> 0, daily_reset |-> 0]
  /\ now = StartOfModel
  /\ cache = [c \in Clients |-> NoRow]
  /\ hook = [c \in Clients |-> [scheduleHelper |-> NoRow, callsToday |-> 0,
                                nextCallTime |-> NULL, error |-> NoError]]
  /\ sched = [lane |-> "dashboard", timer |-> [c \in Clients |-> NoRow]]
  /\ schema \in Schemas

\* the click on "generate": handleGenerateCall of the current render
HandleGenerateCall(c, rnd, strat) ==
  /\ hook[c].scheduleHelper # NoRow
  /\ hook[c].scheduleHelper.lock_version < MaxDashVersion
  /\ GenerateFrom(c, hook[c], rnd, strat)
  /\ UNCHANGED sched

\* what handleCallNow and handleSkip share: markCallAttempted(status) of
\* the current render; when it returns, setTimeout(() => handleGenerateCall())
\* with the handleGenerateCall of that same render; when it throws, the
\* catch block, and no timer
HandleAttempt(c, status) ==
  /\ hook[c].scheduleHelper # NoRow
  /\ hook[c].scheduleHelper.lock_version < MaxDashVersion
  /\ callHistory.attempt < MaxMarks
  /\ sched.timer[c] = NoRow
  /\ MarkCall(c, status)
  /\ sched' = IF db' # db /\ hook'[c].scheduleHelper = db'
              THEN [sched EXCEPT !.timer[c] = hook[c]]
              ELSE sched

\* handleCallNow(platform)
HandleCallNow(c) ==
  /\ hook[c].nextCallTime # NULL
  /\ HandleAttempt(c, "called")

\* handleSkip
HandleSkip(c) ==
  /\ hook[c].nextCallTime # NULL
  /\ HandleAttempt(c, "skipped")

\* the timer callback of handleCallNow / handleSkip, 1000 or 500 ms later:
\* handleGenerateCall, and the generateNextCall, of the render that armed it
TimerFires(c, rnd, strat) ==
  /\ sched.timer[c] # NoRow
  /\ GenerateFrom(c, sched.timer[c], rnd, strat)
  /\ sched' = [sched EXCEPT !.timer[c] = NoRow]

DashNext ==
  \/ Tick
  \/ ResetDailyCallCounts
  \/ \E c \in Clients : LoadInitialData(c)
  \/ \E c \in Clients : RefreshSchedule(c)
  \/ \E c \in Clients, rnd \in HookRandomMinutes, strat \in {"found", "exhausted"} :
       HandleGenerateCall(c, rnd, strat)
  \/ \E c \in Clients : HandleCallNow(c)
  \/ \E c \in Clients : HandleSkip(c)
  \/ \E c \in Clients, rnd \in HookRandomMinutes, strat \in {"found", "exhausted"} :
       TimerFires(c, rnd, strat)

DashSpec == DashInit /\ [][DashNext]_vars

----------------------------------------------------------------------------
(* Claims about the hook and the Dashboard *)

\* C27: within one client, the first getScheduleHelper after a committed
\* updateScheduleHelper returns the row as written, with the new
\* lock_version; the invalidation of the commit has removed the client's
\* cache entry.
C27_ReadAfterWrite ==
  [][\A c \in Clients :
       Commits(c) => (GetScheduleHelper(c) = db /\ cache[c] = NoRow)']_vars

\* C29: markCallAttempted leaves a call_history row only if its write of
\* the schedule row commits.
C29_HistoryOnlyOnCommit ==
  [][callHistory'.attempt > callHistory.attempt
       => \E c \in Clients : Commits(c)]_vars

\* this step is the timer callback of client c, armed by a handleCallNow or
\* handleSkip whose markCallAttempted committed, with a scheduling engine
\* that finds a time
TimerGenerates(c) ==
  \E rnd \in HookRandomMinutes : TimerFires(c, rnd, "found")

\* C28: the generateNextCall the Dashboard starts from its timer after a
\* committed markCallAttempted uses the schedule state that commit returned
\* (the new lock_version, the calls_today after the attempt), so that, no
\* other writer having touched the row since, its write commits.
C28_AutoGenerateCommits ==
  [][\A c \in Clients :
       (TimerGenerates(c) /\ hook[c].scheduleHelper = db)
         => /\ sched.timer[c].scheduleHelper = db
            /\ Commits(c)]_vars

\* C30: whatever the interleaving of the markCallAttempted of the two
\* sessions, the stored calls_today counts the committed
\* markCallAttempted('called') since the last reset: each of them raises it
\* by one, and nothing else changes it but a reset to 0 for a new date.
C30_CallsTodayCounts ==
  [][/\ \A c \in Clients :
          (HandleCallNow(c) /\ Commits(c)) => db'.calls_today = db.calls_today + 1
     /\ db'.calls_today # db.calls_today
          => \/ \E c \in Clients : HandleCallNow(c) /\ Commits(c)
             \/ db'.calls_today = 0 /\ db'.daily_reset_date # db.daily_reset_date]_vars

\* C30 witness: both sessions have marked the same call as called; one
\* write has committed and counted, the other was rejected
C30_Witness ==
  \E c, d \in Clients :
    /\ c # d
    /\ callHistory.attempt = 2
    /\ hook[c].scheduleHelper = db
    /\ db.next_call_due = NULL
    /\ db.calls_today \in {1, DEFAULT_DAILY_LIMIT + 1}
    /\ hook[d].error = NetworkError(ConcurrentModification)
    /\ hook[d].callsToday + 1 = db.calls_today

====
